---------------------------- MODULE Spec2Model ----------------------------
(***************************************************************************)
(* A model of src/src/App.jsx: the App component (React state user,        *)
(* userData, authMessage), its auth-state subscription, the mount-time     *)
(* redirect-result handler, the five form handlers and fetchUserData,      *)
(* running against an Auth Provider and a Document Store.                  *)
(*                                                                         *)
(* Every async function is a task: a record holding the await it is        *)
(* suspended on.  One step of the model is one run-to-completion piece of  *)
(* JavaScript: from a click, a notification or the settling of an awaited  *)
(* promise up to the next await (or the end) of that function.  An         *)
(* external call takes effect at the step that settles its promise.        *)
(***************************************************************************)
EXTENDS Naturals, Sequences, FiniteSets, Bags

VARIABLES
    user,           \* useState user:     <<>> (null) or <<user record>>
    userData,       \* useState userData: <<>> (null) or <<document>>
    authMessage,    \* useState authMessage: <<text, interpolated value>>
    store,          \* Document Store, collection userProfiles: uid -> <<>> or <<document>>
    authUser,       \* Auth Provider: auth.currentUser, <<>> or <<user record>>
    registered,     \* Auth Provider: uids holding an email/password account
    redirectResult, \* Auth Provider: the pending redirect result, <<>> or <<user record>>
    pending,        \* auth-state notifications queued for the subscriber
    mounted,        \* the component is mounted (the form can be clicked)
    subscribed,     \* the onAuthStateChanged subscription is live
    tasks,          \* the async functions in progress: a bag of task records
    clicks,         \* number of button clicks so far
    last            \* history: the step just taken (see Step)

vars == << user, userData, authMessage, store, authUser, registered,
           redirectResult, pending, mounted, subscribed, tasks, clicks, last >>

----------------------------------------------------------------------------
(* Bounds *)

\* Number of button clicks in a run.
MaxClicks == 1

----------------------------------------------------------------------------
(* Values *)

Uids == {"u1", "u2"}

\* The user records the Auth Provider hands out.  "" is a missing field
\* (undefined or empty, both falsy in `x || null`).
\* u1 is an email/password account, u2 a Google account.
UserRecord(uid) ==
    IF uid = "u1"
    THEN [uid |-> "u1", email |-> "a@x.org", displayName |-> "", photoURL |-> ""]
    ELSE [uid |-> "u2", email |-> "b@x.org", displayName |-> "Bea", photoURL |-> "http://p/b"]

NoUser == [uid |-> "", email |-> "", displayName |-> "", photoURL |-> ""]

\* error.message of a rejected Auth Provider / Document Store call
AuthErrors  == {"auth/network-request-failed", "auth/invalid-credential"}
StoreErrors == {"permission-denied"}

\* x || null
OrNull(x) == IF x = "" THEN "null" ELSE x

\* a || b
OrElse(a, b) == IF a = "" THEN b ELSE a

\* The object literal every setDoc call of the component is given.
NewProfile(rec, now) ==
    [ uid         |-> rec.uid,
      email       |-> OrNull(rec.email),
      displayName |-> OrNull(rec.displayName),
      photoURL    |-> OrNull(rec.photoURL),
      createdAt   |-> now,
      score       |-> 0 ]

\* A suspended async function: which one, the await it is suspended on, the
\* uid and user record it works on, and (a fetchUserData about to re-read)
\* the createdAt of the document it wrote.
Task(kind, pc, uid, rec, at) ==
    [kind |-> kind, pc |-> pc, uid |-> uid, rec |-> rec, at |-> at]

\* A step: whose it is (a handler, the callback, the effect), the await that
\* settled (if one did), what happened and the uid or error.message it is about.
Step(who, pc, what, arg) == [who |-> who, pc |-> pc, what |-> what, arg |-> arg]

\* `${user.email || user.displayName}` of the redirect-result handler
RedirectLabel(rec) == OrElse(rec.email, OrElse(rec.displayName, "undefined"))

----------------------------------------------------------------------------
(* Bookkeeping of the tasks *)

Spawn(task) == tasks' = tasks (+) SetToBag({task})

Advance(t, task) == tasks' = (tasks (-) SetToBag({t})) (+) SetToBag({task})

Finish(t) == tasks' = tasks (-) SetToBag({t})

At(t, kind, pc) == t.kind = kind /\ t.pc = pc

----------------------------------------------------------------------------
(* The Auth Provider and the Document Store *)

\* The provider's current user becomes newUser; every change of it is
\* queued for the subscriber while the subscription is live.
SetAuthUser(newUser) ==
    /\ authUser' = newUser
    /\ pending' = IF subscribed /\ newUser # authUser
                  THEN Append(pending, newUser)
                  ELSE pending

AuthUnchanged == UNCHANGED << authUser, registered, redirectResult, pending >>

\* new Date() of a setDoc argument.  The component never compares two
\* dates, it only stores them and reads them back, so a date is kept as a
\* number that tells the documents of different setDoc calls apart, chosen
\* when the call settles: the least number held by no document that is
\* still around then (in the store under another uid, in userData, or
\* remembered by a fetchUserData that has written it).  0 is the date of
\* the documents written before the page was loaded.
Now(uid) ==
    LET held == {store[u][1].createdAt : u \in {v \in Uids \ {uid} : store[v] # << >>}}
                \cup {t.at : t \in BagToSet(tasks)}
                \cup {userData[i].createdAt : i \in DOMAIN userData}
    IN  CHOOSE n \in 1..(Cardinality(held) + 1) : n \notin held

\* docSnap.exists() / docSnap.data() of a getDoc settled now
Exists(uid) == store[uid] # << >>
Data(uid) == store[uid]

\* a setDoc settled now: `set` overwrites wholesale
SetDoc(uid, doc) == store' = [store EXCEPT ![uid] = << doc >>]

----------------------------------------------------------------------------
(* The state after construction: React state as useState sets it, the     *)
(* effect has subscribed and called handleRedirectResult, and the         *)
(* provider has queued the first notification, its current user.  The      *)
(* outside world is any the page can be loaded in.                         *)

OldProfile(uid) == NewProfile(UserRecord(uid), 0)

Init ==
    /\ user = << >>
    /\ userData = << >>
    /\ authMessage = << "", "" >>
    /\ registered \in SUBSET {"u1"}
    /\ store \in [Uids -> {<< >>} \cup {<< OldProfile(u) >> : u \in Uids}]
    /\ \A u \in Uids : store[u] # << >> =>
            /\ store[u][1].uid = u
            /\ u = "u1" => u \in registered
    /\ authUser \in {<< >>} \cup {<< UserRecord(u) >> : u \in registered \cup {"u2"}}
    /\ redirectResult \in {<< >>, authUser}
    /\ redirectResult # << >> => redirectResult[1].uid = "u2"
    /\ pending = << authUser >>
    /\ mounted = TRUE
    /\ subscribed = TRUE
    /\ tasks = SetToBag({Task("handleRedirectResult", "getRedirectResult", "", NoUser, 0)})
    /\ clicks = 0
    /\ last = Step("mount", "", "", "")

----------------------------------------------------------------------------
(* fetchUserData, lines 31-70 *)

\* The call: the synchronous part, up to `await getDoc(userDocRef)`.
fetchUserData(uid, currentUserObject) ==
    IF uid = ""
    THEN /\ authMessage' = << "No user logged in to fetch data.", "" >>
         /\ userData' = << >>
         /\ UNCHANGED tasks
    ELSE /\ authMessage' = << "Fetching data for UID: ", uid >>
         /\ Spawn(Task("fetchUserData", "getDoc", uid, currentUserObject, 0))
         /\ UNCHANGED userData

\* `await getDoc` settles and the document exists (lines 46-49).
FetchFound(t) ==
    /\ At(t, "fetchUserData", "getDoc")
    /\ Exists(t.uid)
    /\ userData' = Data(t.uid)
    /\ authMessage' = << "User data fetched for ", t.uid >>
    /\ Finish(t)
    /\ last' = Step(t.kind, t.pc, "found", t.uid)
    /\ AuthUnchanged
    /\ UNCHANGED << user, store, mounted, subscribed, clicks >>

\* (mutant) the create branch taken without looking at docSnap.exists()
FetchAbsent_Unchecked(t) ==
    /\ At(t, "fetchUserData", "getDoc")
    /\ Advance(t, Task("fetchUserData", "setDoc", t.uid, t.rec, 0))
    /\ last' = Step(t.kind, t.pc, "absent", t.uid)
    /\ AuthUnchanged
    /\ UNCHANGED << user, userData, authMessage, store, mounted, subscribed, clicks >>

\* `await getDoc` settles and there is no document: setDoc is called with
\* the new profile, createdAt being new Date() (lines 50-60).
FetchAbsent(t) ==
    /\ At(t, "fetchUserData", "getDoc")
    /\ ~Exists(t.uid)
    /\ Advance(t, Task("fetchUserData", "setDoc", t.uid, t.rec, 0))
    /\ last' = Step(t.kind, t.pc, "absent", t.uid)
    /\ AuthUnchanged
    /\ UNCHANGED << user, userData, authMessage, store, mounted, subscribed, clicks >>

\* `await setDoc` settles: the profile is stored; getDoc is called again (line 61).
FetchWritten(t) ==
    /\ At(t, "fetchUserData", "setDoc")
    /\ LET now == Now(t.uid) IN
        /\ SetDoc(t.uid, NewProfile(t.rec, now))
        /\ Advance(t, Task("fetchUserData", "reread", t.uid, t.rec, now))
    /\ last' = Step(t.kind, t.pc, "ok", t.uid)
    /\ AuthUnchanged
    /\ UNCHANGED << user, userData, authMessage, mounted, subscribed, clicks >>

\* the second `await getDoc` settles (lines 62-63)
FetchReread(t) ==
    /\ At(t, "fetchUserData", "reread")
    /\ userData' = Data(t.uid)
    /\ authMessage' = << "New profile created and fetched for ", t.uid >>
    /\ Finish(t)
    /\ last' = Step(t.kind, t.pc, "ok", t.uid)
    /\ AuthUnchanged
    /\ UNCHANGED << user, store, mounted, subscribed, clicks >>

\* (mutant) a catch block that reports the error and keeps the profile
FetchFailed_KeepsProfile(t, e) ==
    /\ t.kind = "fetchUserData"
    /\ authMessage' = << "Firestore Data Error: ", e >>
    /\ Finish(t)
    /\ last' = Step(t.kind, t.pc, "catch", e)
    /\ AuthUnchanged
    /\ UNCHANGED << user, userData, store, mounted, subscribed, clicks >>

\* any of the three awaits rejects: the catch block (lines 65-69)
FetchFailed(t, e) ==
    /\ t.kind = "fetchUserData"
    /\ authMessage' = << "Firestore Data Error: ", e >>
    /\ userData' = << >>
    /\ Finish(t)
    /\ last' = Step(t.kind, t.pc, "catch", e)
    /\ AuthUnchanged
    /\ UNCHANGED << user, store, mounted, subscribed, clicks >>

----------------------------------------------------------------------------
(* The effect, lines 73-124 *)

\* (mutant) a signed-out branch that leaves the loaded profile in place
CallbackSignedOut_KeepsProfile ==
    /\ authMessage' = << "Not logged in", "" >>
    /\ UNCHANGED << userData, tasks >>

\* the callback's signed-out branch (lines 82-86)
CallbackSignedOut ==
    /\ authMessage' = << "Not logged in", "" >>
    /\ userData' = << >>
    /\ UNCHANGED tasks

\* (mutant) a signed-in branch that hands fetchUserData the uid without
\* the user record
CallbackSignedIn_NoRecord(currentUser) ==
    fetchUserData(currentUser.uid, NoUser)

\* the callback's signed-in branch (lines 76-81); the message of line 77
\* is replaced by fetchUserData's before the callback returns
CallbackSignedIn(currentUser) ==
    fetchUserData(currentUser.uid, currentUser)

\* The subscriber is handed the next notification (lines 74-87).
onAuthStateChanged ==
    /\ subscribed
    /\ pending # << >>
    /\ LET currentUser == Head(pending) IN
        /\ user' = currentUser
        /\ IF currentUser # << >>
           THEN CallbackSignedIn(currentUser[1])
           ELSE CallbackSignedOut
        /\ last' = Step("onAuthStateChanged", "",
                        IF currentUser # << >> THEN "signedIn" ELSE "signedOut",
                        IF currentUser # << >> THEN currentUser[1].uid
                        ELSE IF userData # << >> THEN userData[1].uid ELSE "")
    /\ pending' = Tail(pending)
    /\ UNCHANGED << store, authUser, registered, redirectResult, mounted, subscribed, clicks >>

\* (mutant) a cleanup that does not release the subscription
Unsubscribe_Leaked == UNCHANGED << subscribed, pending >>

\* unsubscribe() (line 123): notifications not yet handed over are dropped
\* and later changes are not queued.
Unsubscribe ==
    /\ subscribed' = FALSE
    /\ pending' = << >>

\* The component is torn down: the effect's cleanup runs (lines 122-123).
EffectCleanup ==
    /\ mounted
    /\ mounted' = FALSE
    /\ Unsubscribe
    /\ last' = Step("cleanup", "", "", "")
    /\ UNCHANGED << user, userData, authMessage, store, authUser, registered,
                    redirectResult, tasks, clicks >>

\* handleRedirectResult (lines 91-118), called once by the effect (line 120).
\* `await getRedirectResult` settles with no result: nothing more is done.
RedirectResultNone(t) ==
    /\ At(t, "handleRedirectResult", "getRedirectResult")
    /\ redirectResult = << >>
    /\ Finish(t)
    /\ last' = Step(t.kind, t.pc, "none", "")
    /\ AuthUnchanged
    /\ UNCHANGED << user, userData, authMessage, store, mounted, subscribed, clicks >>

\* ... settles with a result: the provider hands it out once; getDoc is
\* called for result.user.uid (lines 94-101).
RedirectResultSome(t) ==
    /\ At(t, "handleRedirectResult", "getRedirectResult")
    /\ redirectResult # << >>
    /\ LET u == redirectResult[1] IN
        /\ authMessage' = << "Successfully signed in with redirect: ", RedirectLabel(u) >>
        /\ Advance(t, Task("handleRedirectResult", "getDoc", u.uid, u, 0))
        /\ last' = Step(t.kind, t.pc, "ok", u.uid)
    /\ redirectResult' = << >>
    /\ UNCHANGED << user, userData, store, authUser, registered, pending,
                    mounted, subscribed, clicks >>

\* (mutant) the redirect-result handler with the test of docSnap.exists()
\* the wrong way round
RedirectResultRead_Inverted(t) ==
    /\ At(t, "handleRedirectResult", "getDoc")
    /\ IF ~Exists(t.uid)
       THEN Finish(t)
       ELSE Advance(t, Task("handleRedirectResult", "setDoc", t.uid, t.rec, 0))
    /\ last' = Step(t.kind, t.pc, IF Exists(t.uid) THEN "found" ELSE "absent", t.uid)
    /\ AuthUnchanged
    /\ UNCHANGED << user, userData, authMessage, store, mounted, subscribed, clicks >>

\* `await getDoc` settles (lines 101-111): with a document the handler is
\* done, without one it calls setDoc.
RedirectResultRead(t) ==
    /\ At(t, "handleRedirectResult", "getDoc")
    /\ IF Exists(t.uid)
       THEN Finish(t)
       ELSE Advance(t, Task("handleRedirectResult", "setDoc", t.uid, t.rec, 0))
    /\ last' = Step(t.kind, t.pc, IF Exists(t.uid) THEN "found" ELSE "absent", t.uid)
    /\ AuthUnchanged
    /\ UNCHANGED << user, userData, authMessage, store, mounted, subscribed, clicks >>

RedirectResultWritten(t) ==
    /\ At(t, "handleRedirectResult", "setDoc")
    /\ SetDoc(t.uid, NewProfile(t.rec, Now(t.uid)))
    /\ Finish(t)
    /\ last' = Step(t.kind, t.pc, "ok", t.uid)
    /\ AuthUnchanged
    /\ UNCHANGED << user, userData, authMessage, mounted, subscribed, clicks >>

\* any of its awaits rejects: the catch block (lines 114-117)
RedirectResultFailed(t, e) ==
    /\ t.kind = "handleRedirectResult"
    /\ e \in (IF t.pc = "getRedirectResult" THEN AuthErrors ELSE StoreErrors)
    /\ authMessage' = << "Redirect Sign In Error: ", e >>
    /\ Finish(t)
    /\ last' = Step(t.kind, t.pc, "catch", e)
    /\ AuthUnchanged
    /\ UNCHANGED << user, userData, store, mounted, subscribed, clicks >>

----------------------------------------------------------------------------
(* The form handlers, lines 128-215.  The sign-in buttons are rendered     *)
(* while user is null, the sign-out button while it is not (lines          *)
(* 225-254); none is rendered once the component is torn down.             *)

SignedOutForm == mounted /\ user = << >> /\ clicks < MaxClicks
SignedInForm  == mounted /\ user # << >> /\ clicks < MaxClicks

\* A click: the handler runs up to its first await.
Click(kind, pc, message) ==
    /\ authMessage' = message
    /\ Spawn(Task(kind, pc, "", NoUser, 0))
    /\ clicks' = clicks + 1
    /\ last' = Step(kind, "", "click", "")
    /\ AuthUnchanged
    /\ UNCHANGED << user, userData, store, mounted, subscribed >>

\* (mutant) a catch block that logs the error and shows nothing
Catch_Silent(t, prefix, e) ==
    /\ Finish(t)
    /\ last' = Step(t.kind, t.pc, "catch", e)
    /\ AuthUnchanged
    /\ UNCHANGED << user, userData, authMessage, store, mounted, subscribed, clicks >>

\* The catch block of a form handler.
Catch(t, prefix, e) ==
    /\ authMessage' = << prefix, e >>
    /\ Finish(t)
    /\ last' = Step(t.kind, t.pc, "catch", e)
    /\ AuthUnchanged
    /\ UNCHANGED << user, userData, store, mounted, subscribed, clicks >>

\* handleSignUp (lines 128-149)
handleSignUp ==
    /\ SignedOutForm
    /\ Click("handleSignUp", "createUserWithEmailAndPassword", << "Signing up...", "" >>)

\* createUserWithEmailAndPassword settles: the account exists and is signed
\* in; setDoc is called with its profile (lines 132-141).
SignUpCreated(t) ==
    /\ At(t, "handleSignUp", "createUserWithEmailAndPassword")
    /\ "u1" \notin registered
    /\ registered' = registered \cup {"u1"}
    /\ SetAuthUser(<< UserRecord("u1") >>)
    /\ Advance(t, Task("handleSignUp", "setDoc", "u1", UserRecord("u1"), 0))
    /\ last' = Step(t.kind, t.pc, "ok", "u1")
    /\ UNCHANGED << user, userData, authMessage, store, redirectResult, mounted, subscribed, clicks >>

SignUpWritten(t) ==
    /\ At(t, "handleSignUp", "setDoc")
    /\ SetDoc(t.uid, NewProfile(t.rec, Now(t.uid)))
    /\ Finish(t)
    /\ last' = Step(t.kind, t.pc, "ok", t.uid)
    /\ AuthUnchanged
    /\ UNCHANGED << user, userData, authMessage, mounted, subscribed, clicks >>

SignUpFailed(t, e) ==
    /\ t.kind = "handleSignUp"
    /\ e \in (IF t.pc = "setDoc" THEN StoreErrors ELSE AuthErrors)
    /\ Catch(t, "Sign Up Error: ", e)

\* handleSignIn (lines 151-161)
handleSignIn ==
    /\ SignedOutForm
    /\ Click("handleSignIn", "signInWithEmailAndPassword", << "Signing in...", "" >>)

\* (mutant) a sign-in handler that stores the signed-in user itself
SignInDone_SetsUser(t) ==
    /\ At(t, "handleSignIn", "signInWithEmailAndPassword")
    /\ "u1" \in registered
    /\ SetAuthUser(<< UserRecord("u1") >>)
    /\ user' = << UserRecord("u1") >>
    /\ Finish(t)
    /\ last' = Step(t.kind, t.pc, "ok", "u1")
    /\ UNCHANGED << userData, authMessage, store, registered, redirectResult,
                    mounted, subscribed, clicks >>

SignInDone(t) ==
    /\ At(t, "handleSignIn", "signInWithEmailAndPassword")
    /\ "u1" \in registered
    /\ SetAuthUser(<< UserRecord("u1") >>)
    /\ Finish(t)
    /\ last' = Step(t.kind, t.pc, "ok", "u1")
    /\ UNCHANGED << user, userData, authMessage, store, registered, redirectResult,
                    mounted, subscribed, clicks >>

\* (mutant) a catch block that shows a fixed text, not error.message
SignInFailed_FixedText(t, e) ==
    /\ At(t, "handleSignIn", "signInWithEmailAndPassword")
    /\ e \in AuthErrors
    /\ authMessage' = << "Sign In Error: ", "" >>
    /\ Finish(t)
    /\ last' = Step(t.kind, t.pc, "catch", e)
    /\ AuthUnchanged
    /\ UNCHANGED << user, userData, store, mounted, subscribed, clicks >>

SignInFailed(t, e) ==
    /\ At(t, "handleSignIn", "signInWithEmailAndPassword")
    /\ e \in AuthErrors
    /\ Catch(t, "Sign In Error: ", e)

\* handleGoogleSignInPopup (lines 163-188)
handleGoogleSignInPopup ==
    /\ SignedOutForm
    /\ Click("handleGoogleSignInPopup", "signInWithPopup",
             << "Signing in with Google (Popup)...", "" >>)

\* signInWithPopup settles: getDoc is called for result.user.uid (lines 168-171)
PopupSignedIn(t) ==
    /\ At(t, "handleGoogleSignInPopup", "signInWithPopup")
    /\ SetAuthUser(<< UserRecord("u2") >>)
    /\ Advance(t, Task("handleGoogleSignInPopup", "getDoc", "u2", UserRecord("u2"), 0))
    /\ last' = Step(t.kind, t.pc, "ok", "u2")
    /\ UNCHANGED << user, userData, authMessage, store, registered, redirectResult,
                    mounted, subscribed, clicks >>

PopupRead(t) ==
    /\ At(t, "handleGoogleSignInPopup", "getDoc")
    /\ IF Exists(t.uid)
       THEN Finish(t)
       ELSE Advance(t, Task("handleGoogleSignInPopup", "setDoc", t.uid, t.rec, 0))
    /\ last' = Step(t.kind, t.pc, IF Exists(t.uid) THEN "found" ELSE "absent", t.uid)
    /\ AuthUnchanged
    /\ UNCHANGED << user, userData, authMessage, store, mounted, subscribed, clicks >>

PopupWritten(t) ==
    /\ At(t, "handleGoogleSignInPopup", "setDoc")
    /\ SetDoc(t.uid, NewProfile(t.rec, Now(t.uid)))
    /\ Finish(t)
    /\ last' = Step(t.kind, t.pc, "ok", t.uid)
    /\ AuthUnchanged
    /\ UNCHANGED << user, userData, authMessage, mounted, subscribed, clicks >>

PopupFailed(t, e) ==
    /\ t.kind = "handleGoogleSignInPopup"
    /\ e \in (IF t.pc = "signInWithPopup" THEN AuthErrors ELSE StoreErrors)
    /\ Catch(t, "Google Sign In Error (Popup): ", e)

\* handleGoogleSignInRedirect (lines 191-202)
handleGoogleSignInRedirect ==
    /\ SignedOutForm
    /\ Click("handleGoogleSignInRedirect", "signInWithRedirect",
             << "Redirecting for Google Sign In...", "" >>)

\* signInWithRedirect takes the browser to the provider: the page, its
\* component and every function in progress are gone.  The page loaded on
\* return starts from Init with the redirect result pending.
RedirectNavigated(t) ==
    /\ At(t, "handleGoogleSignInRedirect", "signInWithRedirect")
    /\ tasks' = EmptyBag
    /\ mounted' = FALSE
    /\ subscribed' = FALSE
    /\ pending' = << >>
    /\ last' = Step(t.kind, t.pc, "navigated", "")
    /\ UNCHANGED << user, userData, authMessage, store, authUser, registered,
                    redirectResult, clicks >>

RedirectFailed(t, e) ==
    /\ At(t, "handleGoogleSignInRedirect", "signInWithRedirect")
    /\ e \in AuthErrors
    /\ Catch(t, "Google Sign In Error (Redirect): ", e)

\* handleSignOut (lines 205-215)
handleSignOut ==
    /\ SignedInForm
    /\ Click("handleSignOut", "signOut", << "Signing out...", "" >>)

SignOutDone(t) ==
    /\ At(t, "handleSignOut", "signOut")
    /\ SetAuthUser(<< >>)
    /\ Finish(t)
    /\ last' = Step(t.kind, t.pc, "ok", "")
    /\ UNCHANGED << user, userData, authMessage, store, registered, redirectResult,
                    mounted, subscribed, clicks >>

\* (mutant) a sign-out that gives up waiting: it reports an error while
\* the call is still pending
SignOutFailed_TimedOut(t, e) ==
    /\ At(t, "handleSignOut", "signOut")
    /\ e \in AuthErrors
    /\ authMessage' = << "Sign Out Error: ", e >>
    /\ last' = Step(t.kind, t.pc, "catch", e)
    /\ AuthUnchanged
    /\ UNCHANGED << user, userData, store, mounted, subscribed, tasks, clicks >>

SignOutFailed(t, e) ==
    /\ At(t, "handleSignOut", "signOut")
    /\ e \in AuthErrors
    /\ Catch(t, "Sign Out Error: ", e)

----------------------------------------------------------------------------

Next ==
    \/ onAuthStateChanged
    \/ EffectCleanup
    \/ handleSignUp
    \/ handleSignIn
    \/ handleGoogleSignInPopup
    \/ handleGoogleSignInRedirect
    \/ handleSignOut
    \/ \E t \in BagToSet(tasks) : FetchFound(t)
    \/ \E t \in BagToSet(tasks) : FetchAbsent(t)
    \/ \E t \in BagToSet(tasks) : FetchWritten(t)
    \/ \E t \in BagToSet(tasks) : FetchReread(t)
    \/ \E t \in BagToSet(tasks) : RedirectResultNone(t)
    \/ \E t \in BagToSet(tasks) : RedirectResultSome(t)
    \/ \E t \in BagToSet(tasks) : RedirectResultRead(t)
    \/ \E t \in BagToSet(tasks) : RedirectResultWritten(t)
    \/ \E t \in BagToSet(tasks) : SignUpCreated(t)
    \/ \E t \in BagToSet(tasks) : SignUpWritten(t)
    \/ \E t \in BagToSet(tasks) : SignInDone(t)
    \/ \E t \in BagToSet(tasks) : PopupSignedIn(t)
    \/ \E t \in BagToSet(tasks) : PopupRead(t)
    \/ \E t \in BagToSet(tasks) : PopupWritten(t)
    \/ \E t \in BagToSet(tasks) : RedirectNavigated(t)
    \/ \E t \in BagToSet(tasks) : SignOutDone(t)
    \/ \E t \in BagToSet(tasks), e \in StoreErrors : FetchFailed(t, e)
    \/ \E t \in BagToSet(tasks), e \in AuthErrors \cup StoreErrors : RedirectResultFailed(t, e)
    \/ \E t \in BagToSet(tasks), e \in AuthErrors \cup StoreErrors : SignUpFailed(t, e)
    \/ \E t \in BagToSet(tasks), e \in AuthErrors \cup StoreErrors : SignInFailed(t, e)
    \/ \E t \in BagToSet(tasks), e \in AuthErrors \cup StoreErrors : PopupFailed(t, e)
    \/ \E t \in BagToSet(tasks), e \in AuthErrors \cup StoreErrors : RedirectFailed(t, e)
    \/ \E t \in BagToSet(tasks), e \in AuthErrors \cup StoreErrors : SignOutFailed(t, e)

Spec == Init /\ [][Next]_vars

----------------------------------------------------------------------------
(* The store is shared: the score of a profile, which the component only  *)
(* ever writes as 0, is updated by other clients of the same collection.  *)

\* another client updates the score of an existing profile
ExternalScoreUpdate(uid) ==
    /\ Exists(uid)
    /\ Data(uid)[1].score = 0
    /\ SetDoc(uid, [Data(uid)[1] EXCEPT !.score = 1])
    /\ last' = Step("external", "", "score", uid)
    /\ AuthUnchanged
    /\ UNCHANGED << user, userData, authMessage, mounted, subscribed, tasks, clicks >>

NextExt ==
    \/ Next
    \/ \E uid \in Uids : ExternalScoreUpdate(uid)

SpecExt == Init /\ [][NextExt]_vars

----------------------------------------------------------------------------
(* The component while it stays mounted and every call it makes responds, *)
(* successfully: no catch block runs, the cleanup does not run and the    *)
(* page is not left for a redirect.  A call that cannot succeed (a        *)
(* sign-up for a registered address, a sign-in for an unknown one) does   *)
(* not respond.  The form is clicked or not; a call that can respond      *)
(* does, and a queued notification is handed to the callback.             *)

\* a call in progress responds, successfully
Responds(t) ==
    \/ FetchFound(t)
    \/ FetchAbsent(t)
    \/ FetchWritten(t)
    \/ FetchReread(t)
    \/ RedirectResultNone(t)
    \/ RedirectResultSome(t)
    \/ RedirectResultRead(t)
    \/ RedirectResultWritten(t)
    \/ SignUpCreated(t)
    \/ SignUpWritten(t)
    \/ SignInDone(t)
    \/ PopupSignedIn(t)
    \/ PopupRead(t)
    \/ PopupWritten(t)
    \/ SignOutDone(t)

NextLive ==
    \/ onAuthStateChanged
    \/ handleSignUp
    \/ handleSignIn
    \/ handleGoogleSignInPopup
    \/ handleSignOut
    \/ \E t \in BagToSet(tasks) : FetchFound(t)
    \/ \E t \in BagToSet(tasks) : FetchAbsent(t)
    \/ \E t \in BagToSet(tasks) : FetchWritten(t)
    \/ \E t \in BagToSet(tasks) : FetchReread(t)
    \/ \E t \in BagToSet(tasks) : RedirectResultNone(t)
    \/ \E t \in BagToSet(tasks) : RedirectResultSome(t)
    \/ \E t \in BagToSet(tasks) : RedirectResultRead(t)
    \/ \E t \in BagToSet(tasks) : RedirectResultWritten(t)
    \/ \E t \in BagToSet(tasks) : SignUpCreated(t)
    \/ \E t \in BagToSet(tasks) : SignUpWritten(t)
    \/ \E t \in BagToSet(tasks) : SignInDone(t)
    \/ \E t \in BagToSet(tasks) : PopupSignedIn(t)
    \/ \E t \in BagToSet(tasks) : PopupRead(t)
    \/ \E t \in BagToSet(tasks) : PopupWritten(t)
    \/ \E t \in BagToSet(tasks) : SignOutDone(t)

Fairness ==
    /\ WF_vars(onAuthStateChanged)
    /\ WF_vars(\E t \in BagToSet(tasks) : Responds(t))

SpecLive == Init /\ [][NextLive]_vars /\ Fairness

----------------------------------------------------------------------------
(* Properties *)

\* the number of invocations of an async function in progress
InProgress(kind) ==
    LET S == {t \in BagToSet(tasks) : t.kind = kind}
    IN  BagCardinality([t \in S |-> tasks[t]])

\* this step settles (or fails) an await of one invocation t
StepOf(t) ==
    /\ last'.who = t.kind
    /\ last'.pc = t.pc
    /\ CopiesIn(t, tasks') < CopiesIn(t, tasks)

FormHandlers ==
    { "handleSignUp", "handleSignIn", "handleGoogleSignInPopup",
      "handleGoogleSignInRedirect", "handleSignOut" }

\* the message a form handler sets before its first await
InProgressMessage(kind) ==
    CASE kind = "handleSignUp" -> << "Signing up...", "" >>
      [] kind = "handleSignIn" -> << "Signing in...", "" >>
      [] kind = "handleGoogleSignInPopup" -> << "Signing in with Google (Popup)...", "" >>
      [] kind = "handleGoogleSignInRedirect" -> << "Redirecting for Google Sign In...", "" >>
      [] kind = "handleSignOut" -> << "Signing out...", "" >>

\* the text each catch block puts before error.message
ErrorPrefix(kind) ==
    CASE kind = "fetchUserData" -> "Firestore Data Error: "
      [] kind = "handleRedirectResult" -> "Redirect Sign In Error: "
      [] kind = "handleSignUp" -> "Sign Up Error: "
      [] kind = "handleSignIn" -> "Sign In Error: "
      [] kind = "handleGoogleSignInPopup" -> "Google Sign In Error (Popup): "
      [] kind = "handleGoogleSignInRedirect" -> "Google Sign In Error (Redirect): "
      [] kind = "handleSignOut" -> "Sign Out Error: "

\* C1: every setDoc the component makes lands on a uid that has no
\* document in the store at that moment (so each profile is written at
\* most once).
C1_ProfileCreatedOnce ==
    [][ (last'.pc = "setDoc" /\ last'.what = "ok") => store[last'.arg] = << >> ]_vars

\* C2: at most one invocation of fetchUserData is in progress.
C2_FetchSequential == InProgress("fetchUserData") <= 1

\* C3: when the callback has processed a null user, user and userData are
\* null, whatever was loaded and whatever is still in progress.
C3_SignOutClearsProfile ==
    (last.who = "onAuthStateChanged" /\ last.what = "signedOut")
        => (user = << >> /\ userData = << >>)

\* a sign-out was clicked and went through, and its notification has just
\* cleared the loaded profile of u1
C3_Witness ==
    /\ last = Step("onAuthStateChanged", "", "signedOut", "u1")
    /\ clicks = 1
    /\ authUser = << >>
    /\ user = << >>
    /\ userData = << >>

\* C4: a fetchUserData that found no document writes the new profile of
\* its record, score 0, and its re-read stores in userData exactly the
\* document it wrote.
C4_RereadIsTheWrittenProfile ==
    [][ \A t \in BagToSet(tasks) :
          /\ (At(t, "fetchUserData", "setDoc") /\ StepOf(t) /\ last'.what = "ok")
                => /\ store'[t.uid] # << >>
                   /\ store'[t.uid] = << NewProfile(t.rec, store'[t.uid][1].createdAt) >>
          /\ (At(t, "fetchUserData", "reread") /\ StepOf(t) /\ last'.what = "ok")
                => userData' = << NewProfile(t.rec, t.at) >> ]_vars

\* C5: a fetchUserData whose getDoc finds the document returns without a
\* setDoc: it sets userData to the document read and leaves the store as
\* it is.
C5_ExistingProfileNotWritten ==
    [][ \A t \in BagToSet(tasks) :
          (At(t, "fetchUserData", "getDoc") /\ StepOf(t)
              /\ last'.what \in {"found", "absent"} /\ Exists(t.uid))
            => /\ tasks' = tasks (-) SetToBag({t})
               /\ userData' = store[t.uid]
               /\ store' = store ]_vars

\* a fetchUserData has just found the profile of u1 and shows it
C5_Witness ==
    /\ last = Step("fetchUserData", "getDoc", "found", "u1")
    /\ userData # << >>
    /\ userData = store["u1"]

\* C6: a failing signInWithEmailAndPassword leaves user (and the
\* provider's user) as it was, and authMessage holds the error's message.
C6_FailedSignIn ==
    [][ (last'.who = "handleSignIn" /\ last'.what = "catch")
          => /\ user' = user
             /\ authUser' = authUser
             /\ last'.arg \in AuthErrors
             /\ authMessage' = << "Sign In Error: ", last'.arg >> ]_vars

\* a sign-in has just failed with nobody signed in
C6_Witness ==
    /\ last = Step("handleSignIn", "signInWithEmailAndPassword", "catch", "auth/invalid-credential")
    /\ user = << >>
    /\ authMessage = << "Sign In Error: ", "auth/invalid-credential" >>

\* C7: a failing call ends in its handler's catch block: the handler
\* returns, authMessage holds the handler's prefix and the error's
\* message, and the component goes on as before (mounted, subscribed, the
\* queued notifications and the form all as they were).
C7_FailuresCaught ==
    [][ (last'.what = "catch")
          => /\ authMessage' = << ErrorPrefix(last'.who), last'.arg >>
             /\ last'.arg \in AuthErrors \cup StoreErrors
             /\ BagCardinality(tasks') + 1 = BagCardinality(tasks)
             /\ UNCHANGED << user, store, authUser, pending, mounted, subscribed, clicks >> ]_vars

\* the setDoc of handleSignUp has just failed
C7_Witness ==
    /\ last = Step("handleSignUp", "setDoc", "catch", "permission-denied")
    /\ authMessage = << "Sign Up Error: ", "permission-denied" >>
    /\ mounted

\* C8: once the cleanup has run the callback is not called any more.
C8_NoNotificationAfterTeardown ==
    ~mounted => last.who # "onAuthStateChanged"

\* a sign-in went through after the teardown and the component was not told
C8_Witness ==
    /\ ~mounted
    /\ last = Step("handleSignIn", "signInWithEmailAndPassword", "ok", "u1")
    /\ authUser = << UserRecord("u1") >>
    /\ user = << >>

\* C9: the callback sets user to the notified user; for a user it starts
\* exactly one fetchUserData, with the user's uid and record, and for null
\* it starts none.
C9_CallbackStartsOneFetch ==
    [][ (last'.who = "onAuthStateChanged" /\ pending # << >>)
          => LET currentUser == Head(pending) IN
             /\ user' = currentUser
             /\ IF currentUser # << >>
                THEN tasks' = tasks (+) SetToBag({Task("fetchUserData", "getDoc",
                                  currentUser[1].uid, currentUser[1], 0)})
                ELSE tasks' = tasks ]_vars

\* the callback has just been handed u2 and started its fetchUserData
C9_Witness ==
    /\ last = Step("onAuthStateChanged", "", "signedIn", "u2")
    /\ user = << UserRecord("u2") >>
    /\ CopiesIn(Task("fetchUserData", "getDoc", "u2", UserRecord("u2"), 0), tasks) = 1

\* C10 as stated: while a form handler stays suspended on its call,
\* authMessage keeps the handler's in-progress value.
C10_InProgressMessageStays ==
    [][ \A t \in BagToSet(tasks) :
          (t.kind \in FormHandlers /\ authMessage = InProgressMessage(t.kind)
              /\ CopiesIn(t, tasks') >= CopiesIn(t, tasks))
            => authMessage' = authMessage ]_vars

\* C10 as amended: while a form handler stays suspended on its call, it
\* is never that call that changes authMessage: the in-progress value is
\* replaced only by another click, notification or async function.
C10_StuckHandlerIsSilent ==
    [][ \A t \in BagToSet(tasks) :
          (t.kind \in FormHandlers /\ authMessage = InProgressMessage(t.kind)
              /\ CopiesIn(t, tasks') >= CopiesIn(t, tasks)
              /\ authMessage' # authMessage)
            => ~(last'.who = t.kind /\ last'.pc = t.pc) ]_vars

\* a sign-out is suspended on its call, something else has happened since
\* the click, and the message is still the in-progress one
C10_Witness ==
    /\ \E t \in BagToSet(tasks) : At(t, "handleSignOut", "signOut")
    /\ authMessage = InProgressMessage("handleSignOut")
    /\ last.who # "handleSignOut"

\* C11: no step of a form handler or of the redirect-result handler changes
\* user or userData (they write authMessage, the store and the provider
\* only); user changes only in the auth-state callback.
C11_HandlersLeaveUserAlone ==
    [][ /\ (last'.who \in FormHandlers \cup {"handleRedirectResult"})
            => (user' = user /\ userData' = userData)
        /\ (user' # user) => (last'.who = "onAuthStateChanged") ]_vars

\* a sign-in has just gone through in the mounted component: the provider
\* holds u1, and user is still null until the callback is told
C11_Witness ==
    /\ mounted
    /\ last = Step("handleSignIn", "signInWithEmailAndPassword", "ok", "u1")
    /\ authUser = << UserRecord("u1") >>
    /\ user = << >>
    /\ pending # << >>

\* the calls of getRedirectResult that have not settled yet
RedirectCalls ==
    CopiesIn(Task("handleRedirectResult", "getRedirectResult", "", NoUser, 0), tasks)

\* C12: getRedirectResult is called once, at mount, and never again.  With
\* no result the handler returns without a store call.  With a result its
\* getDoc decides: a document found ends the handler with the store
\* untouched, setDoc is called only after a read that found none, and
\* when the handler returns without a failure the document of the result
\* user's uid exists.
C12_RedirectResultOnce ==
    /\ RedirectCalls = 1
    /\ [][ /\ RedirectCalls' <= RedirectCalls
           /\ InProgress("handleRedirectResult")' <= 1
           /\ (last'.who = "handleRedirectResult" /\ last'.what = "none")
                 => (store' = store /\ InProgress("handleRedirectResult")' = 0)
           /\ (last'.who = "handleRedirectResult" /\ last'.pc = "getDoc"
                   /\ last'.what \in {"found", "absent"})
                 => /\ store' = store
                    /\ IF store[last'.arg] # << >>
                       THEN InProgress("handleRedirectResult")' = 0
                       ELSE \E t \in BagToSet(tasks') :
                               At(t, "handleRedirectResult", "setDoc") /\ t.uid = last'.arg
           /\ (last'.who = "handleRedirectResult" /\ last'.pc = "setDoc" /\ last'.what = "ok")
                 => /\ store'[last'.arg] # << >>
                    /\ store'[last'.arg][1].uid = last'.arg
                    /\ InProgress("handleRedirectResult")' = 0
           /\ (\E t \in BagToSet(tasks') :
                   At(t, "handleRedirectResult", "setDoc") /\ CopiesIn(t, tasks) = 0)
                 => (last'.what = "absent" /\ store[last'.arg] = << >>)
           /\ (InProgress("handleRedirectResult")' = 0 /\ InProgress("handleRedirectResult") = 1
                   /\ last'.who = "handleRedirectResult" /\ last'.what \in {"found", "ok"})
                 => store'[last'.arg] # << >> ]_vars

\* the handler got the result of u2, read no document, wrote one and is done
C12_Witness ==
    /\ last = Step("handleRedirectResult", "setDoc", "ok", "u2")
    /\ InProgress("handleRedirectResult") = 0
    /\ redirectResult = << >>
    /\ store["u2"] # << >>
    /\ mounted

\* C13: the step that ends an invocation of fetchUserData (uid not empty)
\* is its last write of authMessage: "User data fetched for <uid>" after a
\* getDoc that found the document, "New profile created and fetched for
\* <uid>" after setDoc and the re-read, and after a failed getDoc or setDoc
\* "Firestore Data Error: " with the error's message, userData being set
\* to null.
C13_FetchSurfacesStatus ==
    [][ \A t \in BagToSet(tasks) :
          (t.kind = "fetchUserData" /\ StepOf(t)
              /\ InProgress("fetchUserData")' < InProgress("fetchUserData"))
            => /\ t.uid # ""
               /\ CASE last'.what = "found" ->
                          authMessage' = << "User data fetched for ", t.uid >>
                    [] last'.what = "ok" ->
                          /\ t.pc = "reread"
                          /\ authMessage' = << "New profile created and fetched for ", t.uid >>
                    [] last'.what = "catch" ->
                          /\ last'.arg \in StoreErrors
                          /\ authMessage' = << "Firestore Data Error: ", last'.arg >>
                          /\ userData' = << >>
                    [] OTHER -> FALSE ]_vars

\* the setDoc of a fetchUserData has just failed: its invocation is over,
\* the error is shown and userData is null
C13_Witness ==
    /\ last = Step("fetchUserData", "setDoc", "catch", "permission-denied")
    /\ authMessage = << "Firestore Data Error: ", "permission-denied" >>
    /\ userData = << >>
    /\ InProgress("fetchUserData") = 0

\* C14: whenever user and userData are both set, userData is the profile
\* of user.
C14_ProfileOfSignedInUser ==
    (user # << >> /\ userData # << >>) => userData[1].uid = user[1].uid

\* C15: while user is null (the callback was last told of no user, or has
\* not been told of any), userData is null.
C15_NoProfileWhileSignedOut ==
    user = << >> => userData = << >>

\* C16: a profile whose score another client has changed is left as it is
\* by every step of the component: no write of the component replaces the
\* document or puts its score back to 0.
C16_ScoreNeverReset ==
    [][ \A uid \in Uids :
          (Exists(uid) /\ Data(uid)[1].score # 0 /\ last'.who # "external")
            => store'[uid] = store[uid] ]_vars

\* a sign-in of uid has just succeeded (by password, popup or redirect)
SignedIn(uid) ==
    /\ last.what = "ok"
    /\ last.arg = uid
    /\ last.pc \in { "createUserWithEmailAndPassword", "signInWithEmailAndPassword",
                     "signInWithPopup", "getRedirectResult" }

\* the component shows uid with the profile the store holds for it
Loaded(uid) ==
    /\ user = << UserRecord(uid) >>
    /\ Exists(uid)
    /\ userData = Data(uid)

\* C17: when a sign-in has succeeded, every call responds successfully and
\* the component stays mounted, then, unless the signed-in user changes
\* again, eventually user is that user, the store holds a profile for its
\* uid and userData is that profile.
C17_SignInLoadsProfile ==
    \A uid \in Uids :
        SignedIn(uid) ~> (Loaded(uid) \/ authUser # << UserRecord(uid) >>)

============================================================================
